---- MODULE Spec2Model ----
(***************************************************************************)
(* Lane-mode reconfiguration of a BcmPortGroup                             *)
(* (fboss/agent/hw/bcm/BcmPortGroup.cpp).                                  *)
(*                                                                         *)
(* Spec      : a port group driven by the state-apply pipeline             *)
(*             (validConfiguration / reconfigureIfNeeded).                 *)
(* SpecCalc  : the lane-mode calculation functions applied to bounded      *)
(*             inputs.                                                     *)
(***************************************************************************)
EXTENDS Integers, Sequences, FiniteSets, TLC

VARIABLES
  platform,         \* platform / platform-port capabilities (fixed per device)
  laneMode_,        \* BcmPortGroup::laneMode_
  allPorts_,        \* BcmPortGroup::allPorts_ : sequence of [id, h] handles
  controllingPort_, \* BcmPortGroup::controllingPort_ : [id, h]
  portTable,        \* BcmPortTable entries of the group: port id -> handle
  hwLanes,          \* bcmPortControlLanes register of the controlling port
  gen,              \* number of BcmPort generations created so far
  oldState,         \* oldState argument of the last reconfigureIfNeeded
  newState,         \* newState argument of the last call (candidate of validate)
  op,               \* last operation
  result,           \* outcome of the last operation
  calls,            \* hardware calls issued by the last operation, in order
  notified,         \* linkSpeedChanged notifications of the last operation
  alive,            \* FALSE once an error escaped to the pipeline
  candidate,        \* state argument of the last validConfiguration
  progress,         \* how far the last reconfigureIfNeeded got
  before,           \* the group as it was when the last operation was called
  calcIn,           \* SpecCalc: input of the calculation
  calcOut           \* SpecCalc: its output

vars == << platform, laneMode_, allPorts_, controllingPort_, portTable,
           hwLanes, gen, oldState, newState, op, result, calls, notified,
           alive, candidate, progress, before, calcIn, calcOut >>

groupVars == << laneMode_, allPorts_, controllingPort_, portTable, hwLanes, gen >>

(***************************************************************************)
(* LaneMode and PortSpeed                                                  *)
(***************************************************************************)
SINGLE == 1
DUAL == 2
QUAD == 4

\* cfg::PortSpeed::DEFAULT; the other speeds are in Gbps
DEFAULT == 0

\* lanes of one port group (lane number 0..3)
GroupSize == 4

PortIDs == 1..GroupSize

Ok(m) == [ok |-> TRUE, mode |-> m, err |-> "none"]
Err(e) == [ok |-> FALSE, mode |-> 0, err |-> e]

(***************************************************************************)
(* neededLaneModeForSpeed                                                  *)
(***************************************************************************)
\* a plausible slip: the quotient 3 is not mapped to QUAD
laneModeForQuotient_noTri(neededLanes) ==
  IF neededLanes = 1 THEN SINGLE
  ELSE IF neededLanes = 2 THEN DUAL
  ELSE IF neededLanes > 3 /\ neededLanes <= 4 THEN QUAD
  ELSE 0

\* the if/else chain on neededLanes; 0 stands for "no return, next candidate"
laneModeForQuotient(neededLanes) ==
  IF neededLanes = 1 THEN SINGLE
  ELSE IF neededLanes = 2 THEN DUAL
  ELSE IF neededLanes > 2 /\ neededLanes <= 4 THEN QUAD
  ELSE 0

RECURSIVE neededLaneModeFrom(_, _, _)
neededLaneModeFrom(speed, laneSpeeds, i) ==
  IF i > Len(laneSpeeds) THEN Err("UnsupportedSpeed")
  ELSE LET rem == speed % laneSpeeds[i]
           quot == speed \div laneSpeeds[i]
       IN IF rem # 0 THEN neededLaneModeFrom(speed, laneSpeeds, i + 1)
          ELSE IF laneModeForQuotient(quot) # 0
                 THEN Ok(laneModeForQuotient(quot))
                 ELSE neededLaneModeFrom(speed, laneSpeeds, i + 1)

neededLaneModeForSpeed(speed, laneSpeeds) ==
  IF speed = DEFAULT THEN Err("InvalidConfig")
  ELSE neededLaneModeFrom(speed, laneSpeeds, 1)

\* TRUE when checkLaneModeisValid returns, FALSE when it throws
checkLaneModeisValid(lane, desiredMode) ==
  IF desiredMode = QUAD THEN lane = 0
  ELSE IF desiredMode = DUAL THEN ~(lane # 0 /\ lane # 2)
  ELSE TRUE

\* static_cast<LaneMode>(uint8_t): never throws, keeps the value
numLanesToLaneMode(numLanes) == numLanes % 256

\* a plausible slip: the running mode is overwritten instead of raised
raiseDesiredMode_overwrite(neededMode, desiredMode) == neededMode

\* if (neededMode > desiredMode) desiredMode = neededMode;
raiseDesiredMode(neededMode, desiredMode) ==
  IF neededMode > desiredMode THEN neededMode ELSE desiredMode

(***************************************************************************)
(* calculateDesiredLaneMode: returns the result and the running value of   *)
(* desiredMode after each member visited                                   *)
(***************************************************************************)
RECURSIVE calculateDesiredLaneModeFrom(_, _, _, _, _)
calculateDesiredLaneModeFrom(ports, laneSpeeds, i, desiredMode, running) ==
  IF i > Len(ports) THEN [res |-> Ok(desiredMode), running |-> running]
  ELSE
    LET port == ports[i]
        lane == i - 1
    IN IF ~port.enabled
         THEN calculateDesiredLaneModeFrom(
                ports, laneSpeeds, i + 1, desiredMode, Append(running, desiredMode))
         ELSE
           LET needed == neededLaneModeForSpeed(port.speed, laneSpeeds) IN
           IF ~needed.ok THEN [res |-> needed, running |-> running]
           ELSE
             LET d == raiseDesiredMode(needed.mode, desiredMode) IN
             IF ~checkLaneModeisValid(lane, d)
               THEN [res |-> Err("InvalidPlacement"), running |-> Append(running, d)]
               ELSE calculateDesiredLaneModeFrom(
                      ports, laneSpeeds, i + 1, d, Append(running, d))

\* a plausible slip: the aggregation starts at DUAL instead of SINGLE
calculateDesiredLaneMode_fromDual(ports, laneSpeeds) ==
  calculateDesiredLaneModeFrom(ports, laneSpeeds, 1, DUAL, << >>)

calculateDesiredLaneMode(ports, laneSpeeds) ==
  calculateDesiredLaneModeFrom(ports, laneSpeeds, 1, SINGLE, << >>)

(***************************************************************************)
(* calculateDesiredLaneModeFromConfig                                      *)
(***************************************************************************)
\* platform.supportedProfiles: profile id -> iphy.numLanes
ProfileIDs == {"P1", "P2", "P3", "P4", "PX"}
supportedProfiles == [p \in {"P1", "P2", "P3", "P4"} |->
                        IF p = "P1" THEN 1 ELSE IF p = "P2" THEN 2
                        ELSE IF p = "P3" THEN 3 ELSE 4]

RECURSIVE calculateDesiredLaneModeFromConfigFrom(_, _, _, _, _)
calculateDesiredLaneModeFromConfigFrom(ports, profiles, i, desiredMode, running) ==
  IF i > Len(ports) THEN [res |-> Ok(desiredMode), running |-> running]
  ELSE
    LET port == ports[i] IN
    IF ~port.enabled
      THEN calculateDesiredLaneModeFromConfigFrom(
             ports, profiles, i + 1, desiredMode, Append(running, desiredMode))
      ELSE
        IF port.profile \notin DOMAIN profiles
          THEN [res |-> Err("UnknownProfile"), running |-> running]
          ELSE
            LET neededMode == numLanesToLaneMode(profiles[port.profile])
                d == raiseDesiredMode(neededMode, desiredMode)
            IN calculateDesiredLaneModeFromConfigFrom(
                 ports, profiles, i + 1, d, Append(running, d))

calculateDesiredLaneModeFromConfig(ports, profiles) ==
  calculateDesiredLaneModeFromConfigFrom(ports, profiles, 1, SINGLE, << >>)

(***************************************************************************)
(* Switch state: the software ports of the group                           *)
(***************************************************************************)
Cfg(e, s, p) == [present |-> TRUE, enabled |-> e, speed |-> s, profile |-> p]
Absent == [present |-> FALSE, enabled |-> FALSE, speed |-> DEFAULT, profile |-> "PX"]

SwPort(id, c) == [id |-> id, enabled |-> c.enabled, speed |-> c.speed,
                  profile |-> c.profile]

MkState(c1, c2, c3, c4) == [i \in PortIDs |->
  IF i = 1 THEN c1 ELSE IF i = 2 THEN c2 ELSE IF i = 3 THEN c3 ELSE c4]

\* bcmPort->supportsSpeed(speed)
supportsSpeed(plat, speed) == speed \in plat.supportedSpeeds

\* ports of the platform config whose controlling port is this group's
\* (utility::getPlatformPortsByControllingPort), ascending by id
RECURSIVE platformPortsOfGroup(_, _)
platformPortsOfGroup(state, i) ==
  IF i > GroupSize THEN << >>
  ELSE IF state[i].present
         THEN << SwPort(i, state[i]) >> \o platformPortsOfGroup(state, i + 1)
         ELSE platformPortsOfGroup(state, i + 1)

RECURSIVE memberSwPorts(_, _, _, _)
memberSwPorts(plat, members, state, i) ==
  IF i > Len(members) THEN [ok |-> TRUE, err |-> "none", ports |-> << >>]
  ELSE
    LET id == members[i].id IN
    IF ~state[id].present
      THEN [ok |-> FALSE, err |-> "SwPortNotFound", ports |-> << >>]
    ELSE IF ~supportsSpeed(plat, state[id].speed)
      THEN [ok |-> FALSE, err |-> "SpeedNotSupported", ports |-> << >>]
    ELSE
      LET rest == memberSwPorts(plat, members, state, i + 1) IN
      IF ~rest.ok THEN rest
      ELSE [ok |-> TRUE, err |-> "none",
            ports |-> << SwPort(id, state[id]) >> \o rest.ports]

getSwPorts(plat, members, state) ==
  IF plat.hasPlatformPorts
    THEN [ok |-> TRUE, err |-> "none", ports |-> platformPortsOfGroup(state, 1)]
    ELSE memberSwPorts(plat, members, state, 1)

\* index of the port with this id in the list, 0 when there is none
getSwPortIf(ports, id) ==
  IF \E i \in 1..Len(ports) : ports[i].id = id
    THEN CHOOSE i \in 1..Len(ports) :
           ports[i].id = id /\ \A j \in 1..(i - 1) : ports[j].id # id
    ELSE 0

\* the desired lane mode of a port list on this platform
desiredLaneModeOf(plat, ports) ==
  IF plat.hasSupportedProfiles
    THEN calculateDesiredLaneModeFromConfig(ports, supportedProfiles)
    ELSE calculateDesiredLaneMode(ports, plat.laneSpeeds)

(***************************************************************************)
(* validConfiguration                                                      *)
(***************************************************************************)
\* a plausible slip: the error of the computation is returned, not caught
validConfiguration_noCatch(plat, members, state) ==
  LET got == getSwPorts(plat, members, state) IN
  IF ~got.ok THEN "false"
  ELSE LET c == desiredLaneModeOf(plat, got.ports) IN
       IF c.res.ok THEN "true" ELSE c.res.err

validConfiguration(plat, members, state) ==
  LET got == getSwPorts(plat, members, state) IN
  IF ~got.ok THEN "false"
  ELSE IF desiredLaneModeOf(plat, got.ports).res.ok THEN "true" ELSE "false"

(***************************************************************************)
(* The steps of one reconfigureIfNeeded invocation.  A step is a hardware  *)
(* call (t = "hw"), an update of the group or of the port table, a lookup  *)
(* that may throw, a throw, or a linkSpeedChanged notification.            *)
(***************************************************************************)
Ev(t, o, port, val, what, ids) ==
  [t |-> t, op |-> o, port |-> port, val |-> val, what |-> what, ids |-> ids]

Hw(o, port, val, what, ids) == Ev("hw", o, port, val, what, ids)
Throw(e) == Ev("throw", e, 0, 0, "", << >>)
Mark(m) == Ev("mark", m, 0, 0, "", << >>)

Ids(ports) == [i \in 1..Len(ports) |-> ports[i].id]

Reverse(s) == [i \in 1..Len(s) |-> s[Len(s) + 1 - i]]

\* bcmSwitchArpRequestToCpu, bcmSwitchArpReplyToCpu, bcmSwitchDhcpPktDrop,
\* bcmSwitchDhcpPktToCpu, bcmSwitchNdPktToCpu
TrapKinds == << "ArpRequestToCpu", "ArpReplyToCpu", "DhcpPktDrop",
                "DhcpPktToCpu", "NdPktToCpu" >>

setPortSpecificControls(port, enable) ==
  [k \in 1..Len(TrapKinds) |->
     Hw("switchControlPortSet", port, enable, TrapKinds[k], << >>)]

\* a plausible slip: linkscan is left running when a port is disabled
RECURSIVE disablePortsEvents_keepLinkscan(_, _, _)
disablePortsEvents_keepLinkscan(members, oldPorts, i) ==
  IF i > Len(members) THEN << >>
  ELSE IF getSwPortIf(oldPorts, members[i].id) = 0
    THEN << Throw("SwPortNotFound") >>
    ELSE << Hw("disable", members[i].id, 0, "", << >>) >>
         \o disablePortsEvents_keepLinkscan(members, oldPorts, i + 1)

\* 1. For all existing ports, disable linkscan, then disable
RECURSIVE disablePortsEvents(_, _, _)
disablePortsEvents(members, oldPorts, i) ==
  IF i > Len(members) THEN << >>
  ELSE IF getSwPortIf(oldPorts, members[i].id) = 0
    THEN << Throw("SwPortNotFound") >>
    ELSE << Hw("disableLinkscan", members[i].id, 0, "", << >>),
            Hw("disable", members[i].id, 0, "", << >>) >>
         \o disablePortsEvents(members, oldPorts, i + 1)

\* a plausible slip: linkscan is enabled for every port of the new state
RECURSIVE enableLinkscanEvents_all(_, _)
enableLinkscanEvents_all(newPorts, i) ==
  IF i > Len(newPorts) THEN << >>
  ELSE << Ev("getBcmPort", "getBcmPort", newPorts[i].id, 0, "", << >>),
          Hw("enableLinkscan", newPorts[i].id, 0, "", << >>) >>
       \o enableLinkscanEvents_all(newPorts, i + 1)

\* 3. enable linkscan for the enabled ports of the new state
RECURSIVE enableLinkscanEvents(_, _)
enableLinkscanEvents(newPorts, i) ==
  IF i > Len(newPorts) THEN << >>
  ELSE << Ev("getBcmPort", "getBcmPort", newPorts[i].id, 0, "", << >>) >>
       \o (IF newPorts[i].enabled
             THEN << Hw("enableLinkscan", newPorts[i].id, 0, "", << >>) >>
             ELSE << >>)
       \o enableLinkscanEvents(newPorts, i + 1)

\* a plausible slip: the lane count is written directly, without the
\* intermediate write of 4
legacyLaneWrites_direct(laneMode, desiredLaneMode) == << desiredLaneMode >>

\* the values written to bcmPortControlLanes by the legacy branch
legacyLaneWrites(laneMode, desiredLaneMode) ==
  (IF (laneMode = SINGLE /\ desiredLaneMode = DUAL)
       \/ (laneMode = DUAL /\ desiredLaneMode = SINGLE)
     THEN << 4 >> ELSE << >>)
  \o << desiredLaneMode >>

\* a plausible slip: the legacy branch also cuts the member list down to the
\* ports of the new lane mode
legacyEvents_resize(g, desiredLaneMode) ==
  LET w == legacyLaneWrites(g.laneMode, desiredLaneMode)
      kept == SelectSeq(Ids(g.allPorts),
                        LAMBDA id : checkLaneModeisValid(id - 1, desiredLaneMode))
  IN
  [i \in 1..Len(w) |->
     Hw("setLanesControl", g.controllingPort.id, w[i], "", << >>)]
  \o << Ev("setAllPorts", "setAllPorts", 0, 0, "", kept),
        Ev("setLaneMode", "setLaneMode", 0, desiredLaneMode, "", << >>) >>

\* a plausible slip: laneMode_ is recorded before the register is written
legacyEvents_recordFirst(g, desiredLaneMode) ==
  LET w == legacyLaneWrites(g.laneMode, desiredLaneMode) IN
  << Ev("setLaneMode", "setLaneMode", 0, desiredLaneMode, "", << >>) >>
  \o [i \in 1..Len(w) |->
        Hw("setLanesControl", g.controllingPort.id, w[i], "", << >>)]

\* a plausible slip: laneMode_ is not updated after the register write
legacyEvents_noRecord(g, desiredLaneMode) ==
  LET w == legacyLaneWrites(g.laneMode, desiredLaneMode) IN
  [i \in 1..Len(w) |->
     Hw("setLanesControl", g.controllingPort.id, w[i], "", << >>)]

legacyEvents(g, desiredLaneMode) ==
  LET w == legacyLaneWrites(g.laneMode, desiredLaneMode) IN
  [i \in 1..Len(w) |->
     Hw("setLanesControl", g.controllingPort.id, w[i], "", << >>)]
  \o << Ev("setLaneMode", "setLaneMode", 0, desiredLaneMode, "", << >>) >>

\* a plausible slip: the pending entries of a member are not purged
purgeEvents_noPending(port) ==
  << Hw("l2AddrDeleteByPort", port, 0, "static", << >>) >>
  \o setPortSpecificControls(port, 0)

\* remove l2 entries and disable the switch controls of one member
purgeEvents(port) ==
  << Hw("l2AddrDeleteByPort", port, 0, "static", << >>),
     Hw("l2AddrDeleteByPort", port, 0, "pending", << >>) >>
  \o setPortSpecificControls(port, 0)

RECURSIVE ForEach(_, _, _)
ForEach(F(_), ids, i) ==
  IF i > Len(ids) THEN << >> ELSE F(ids[i]) \o ForEach(F, ids, i + 1)

\* the ports returned by BcmPortResourceBuilder::addPorts
addedPortsOf(ports, addOrd) ==
  IF addOrd = "reversed" THEN Reverse(Ids(ports)) ELSE Ids(ports)

removeEntryEvents(id) ==
  << Ev("removeBcmPort", "removeBcmPort", id, 0, "", << >>) >>

addEntryEvents(id) ==
  << Ev("addBcmPort", "addBcmPort", id, 0, "", << >>),
     Ev("getBcmPort", "getBcmPort", id, 0, "", << >>) >>

\* a plausible slip: the entries of the old members are left in the table
portTableEvents_keepOld(members, added) == ForEach(addEntryEvents, added, 1)

\* remove all old entries from the port table, then add the new ports
portTableEvents(members, added) ==
  ForEach(removeEntryEvents, members, 1) \o ForEach(addEntryEvents, added, 1)

\* a plausible slip: the port table is updated before the builder has
\* programmed the change
flexEvents_tableFirst(g, ports, desiredLaneMode, addOrd) ==
  LET members == Ids(g.allPorts)
      added == addedPortsOf(ports, addOrd)
      enableTraps(id) == setPortSpecificControls(id, 1)
  IN ForEach(purgeEvents, members, 1)
     \o portTableEvents(members, added)
     \o << Hw("removePorts", 0, 0, "", members),
           Hw("addPorts", 0, 0, "", Ids(ports)),
           Hw("program", 0, 0, "", << >>) >>
     \o << Ev("setControllingPort", "setControllingPort", g.controllingPort.id, 0, "", << >>),
           Ev("setAllPorts", "setAllPorts", 0, 0, "", added) >>
     \o ForEach(enableTraps, added, 1)
     \o << Ev("setLaneMode", "setLaneMode", 0, desiredLaneMode, "", << >>) >>

\* a plausible slip: laneMode_ is not updated at the end of the flex branch
flexEvents_noRecord(g, ports, desiredLaneMode, addOrd) ==
  LET members == Ids(g.allPorts)
      added == addedPortsOf(ports, addOrd)
      enableTraps(id) == setPortSpecificControls(id, 1)
  IN ForEach(purgeEvents, members, 1)
     \o << Hw("removePorts", 0, 0, "", members),
           Hw("addPorts", 0, 0, "", Ids(ports)),
           Hw("program", 0, 0, "", << >>) >>
     \o portTableEvents(members, added)
     \o << Ev("setControllingPort", "setControllingPort", g.controllingPort.id, 0, "", << >>),
           Ev("setAllPorts", "setAllPorts", 0, 0, "", added) >>
     \o ForEach(enableTraps, added, 1)

\* a plausible slip: the controlling port handle is kept, not looked up again
flexEvents_noResolve(g, ports, desiredLaneMode, addOrd) ==
  LET members == Ids(g.allPorts)
      added == addedPortsOf(ports, addOrd)
      enableTraps(id) == setPortSpecificControls(id, 1)
  IN ForEach(purgeEvents, members, 1)
     \o << Hw("removePorts", 0, 0, "", members),
           Hw("addPorts", 0, 0, "", Ids(ports)),
           Hw("program", 0, 0, "", << >>) >>
     \o portTableEvents(members, added)
     \o << Ev("setAllPorts", "setAllPorts", 0, 0, "", added) >>
     \o ForEach(enableTraps, added, 1)
     \o << Ev("setLaneMode", "setLaneMode", 0, desiredLaneMode, "", << >>) >>

flexEvents(g, ports, desiredLaneMode, addOrd) ==
  LET members == Ids(g.allPorts)
      added == addedPortsOf(ports, addOrd)
      enableTraps(id) == setPortSpecificControls(id, 1)
  IN ForEach(purgeEvents, members, 1)
     \o << Hw("removePorts", 0, 0, "", members),
           Hw("addPorts", 0, 0, "", Ids(ports)),
           Hw("program", 0, 0, "", << >>) >>
     \o portTableEvents(members, added)
     \o << Ev("setControllingPort", "setControllingPort", g.controllingPort.id, 0, "", << >>),
           Ev("setAllPorts", "setAllPorts", 0, 0, "", added) >>
     \o ForEach(enableTraps, added, 1)
     \o << Ev("setLaneMode", "setLaneMode", 0, desiredLaneMode, "", << >>) >>

\* a plausible slip: a platform that cannot add or remove ports falls back to
\* the legacy register write
setActiveLanesEvents_fallback(g, plat, ports, desiredLaneMode, addOrd) ==
  IF plat.usePortResourceAPIs /\ plat.supportsAddRemovePort
    THEN flexEvents(g, ports, desiredLaneMode, addOrd)
    ELSE legacyEvents(g, desiredLaneMode)

setActiveLanesEvents(g, plat, ports, desiredLaneMode, addOrd) ==
  IF plat.usePortResourceAPIs
    THEN IF ~plat.supportsAddRemovePort
           THEN << Throw("UnsupportedPlatformOperation") >>
           ELSE flexEvents(g, ports, desiredLaneMode, addOrd)
    ELSE legacyEvents(g, desiredLaneMode)

reconfigureLaneModeEvents(g, plat, oldPorts, newPorts, newLaneMode, addOrd) ==
  disablePortsEvents(g.allPorts, oldPorts, 1)
  \o << Mark("disabled") >>
  \o setActiveLanesEvents(g, plat, newPorts, newLaneMode, addOrd)
  \o << Mark("transitioned") >>
  \o enableLinkscanEvents(newPorts, 1)
  \o << Mark("linkscanned") >>

\* a plausible slip: the platform port is told the old speed
RECURSIVE linkSpeedEvents_oldSpeed(_, _, _, _)
linkSpeedEvents_oldSpeed(memberIds, oldPorts, newPorts, i) ==
  IF i > Len(memberIds) THEN << >>
  ELSE
    LET o == getSwPortIf(oldPorts, memberIds[i])
        n == getSwPortIf(newPorts, memberIds[i])
    IN (IF o # 0 /\ n # 0 /\ oldPorts[o].speed # newPorts[n].speed
          THEN << Ev("linkSpeedChanged", "linkSpeedChanged", memberIds[i],
                     oldPorts[o].speed, "", << >>) >>
          ELSE << >>)
       \o linkSpeedEvents_oldSpeed(memberIds, oldPorts, newPorts, i + 1)

\* the linkSpeedChanged loop over allPorts_
RECURSIVE linkSpeedEvents(_, _, _, _)
linkSpeedEvents(memberIds, oldPorts, newPorts, i) ==
  IF i > Len(memberIds) THEN << >>
  ELSE
    LET o == getSwPortIf(oldPorts, memberIds[i])
        n == getSwPortIf(newPorts, memberIds[i])
    IN (IF o # 0 /\ n # 0 /\ oldPorts[o].speed # newPorts[n].speed
          THEN << Ev("linkSpeedChanged", "linkSpeedChanged", memberIds[i],
                     newPorts[n].speed, "", << >>) >>
          ELSE << >>)
       \o linkSpeedEvents(memberIds, oldPorts, newPorts, i + 1)

(***************************************************************************)
(* reconfigureIfNeeded                                                     *)
(***************************************************************************)
\* a plausible slip: the ports are disabled before the desired lane mode
\* has been computed
computeThenAct_actFirst(g, oldPorts, calc, events) ==
  disablePortsEvents(g.allPorts, oldPorts, 1)
  \o (IF ~calc.res.ok THEN << Throw(calc.res.err) >> ELSE events)

\* the desired lane mode is computed (and may throw) before anything is done
computeThenAct(g, oldPorts, calc, events) ==
  IF ~calc.res.ok THEN << Throw(calc.res.err) >> ELSE events

\* a plausible slip: the lane mode is reconfigured on every call
needsReconfigure_always(desiredLaneMode, laneMode) == TRUE

\* if (desiredLaneMode != laneMode_)
needsReconfigure(desiredLaneMode, laneMode) == desiredLaneMode # laneMode

\* a plausible slip: the old speed is compared with itself
speedChangeEvents_never(memberIds, oldPorts, newPorts) == << >>

speedChangeEvents(memberIds, oldPorts, newPorts) ==
  linkSpeedEvents(memberIds, oldPorts, newPorts, 1)

\* the steps of reconfigureIfNeeded(oldState, newState) when no call fails
reconfigureIfNeededEvents(g, plat, old, new, addOrd) ==
  LET oldGot == getSwPorts(plat, g.allPorts, old)
      newGot == getSwPorts(plat, g.allPorts, new)
  IN
  IF ~oldGot.ok THEN << Throw(oldGot.err) >>
  ELSE IF ~newGot.ok THEN << Throw(newGot.err) >>
  ELSE
    LET oldPorts == oldGot.ports
        newPorts == newGot.ports
        calc == desiredLaneModeOf(plat, newPorts)
        desiredLaneMode == calc.res.mode
        changes == needsReconfigure(desiredLaneMode, g.laneMode)
        flex == plat.usePortResourceAPIs /\ plat.supportsAddRemovePort
        membersAfter == IF changes /\ flex
                          THEN addedPortsOf(newPorts, addOrd)
                          ELSE Ids(g.allPorts)
    IN computeThenAct(g, oldPorts, calc,
         << Mark("computed") >>
         \o (IF changes
               THEN reconfigureLaneModeEvents(
                      g, plat, oldPorts, newPorts, desiredLaneMode, addOrd)
               ELSE << >>)
         \o speedChangeEvents(membersAfter, oldPorts, newPorts))

(***************************************************************************)
(* Execution of the steps.  Every hardware call either succeeds or returns *)
(* an error (bcmCheckError throws): Outcomes is the set of the ways the    *)
(* invocation can end, one per call that may fail plus the run in which    *)
(* none does.                                                              *)
(***************************************************************************)
Call(ev, ok) == [op |-> ev.op, port |-> ev.port, val |-> ev.val,
                 what |-> ev.what, ids |-> ev.ids, ok |-> ok]

\* BcmPortTable: drop the entry of a port, create a BcmPort for a port,
\* is there an entry for a port
removeBcmPort(table, id) == [p \in (DOMAIN table) \ {id} |-> table[p]]
addBcmPort(table, id, h) ==
  [p \in (DOMAIN table) \cup {id} |-> IF p = id THEN h ELSE table[p]]
hasBcmPort(table, id) == id \in DOMAIN table

\* the effect of one step that is not a hardware call and does not throw
Apply(ev, st) ==
  CASE ev.t = "mark" -> [st EXCEPT !.progress = ev.op]
    [] ev.t = "removeBcmPort" ->
         [st EXCEPT !.portTable = removeBcmPort(@, ev.port)]
    [] ev.t = "addBcmPort" ->
         [st EXCEPT !.portTable = addBcmPort(@, ev.port, st.gen + 1)]
    [] ev.t = "getBcmPort" -> st
    [] ev.t = "setControllingPort" ->
         [st EXCEPT !.controllingPort =
            [id |-> ev.port, h |-> st.portTable[ev.port]]]
    [] ev.t = "setAllPorts" ->
         [st EXCEPT !.allPorts =
            [k \in 1..Len(ev.ids) |->
               [id |-> ev.ids[k], h |-> st.portTable[ev.ids[k]]]],
                    !.gen = @ + 1]
    [] ev.t = "setLaneMode" -> [st EXCEPT !.laneMode = ev.val]
    [] ev.t = "linkSpeedChanged" ->
         [st EXCEPT !.notified = Append(@, [port |-> ev.port, speed |-> ev.val])]

\* getBcmPort throws when the port table has no entry for the port
Throws(ev, st) ==
  ev.t \in {"getBcmPort", "setControllingPort"} /\ ~hasBcmPort(st.portTable, ev.port)

\* a plausible slip: the return code of a hardware call is not checked, and
\* the invocation returns normally after a failed call
Step_unchecked(ev, st) ==
  IF ev.t = "hw"
    THEN [st |-> [st EXCEPT !.calls = Append(@, Call(ev, TRUE)),
                            !.hwLanes = IF ev.op = "setLanesControl"
                                          THEN ev.val ELSE @],
          failed |-> {[st EXCEPT !.calls = Append(@, Call(ev, FALSE)),
                                 !.status = "ok"]}]
  ELSE IF ev.t = "throw"
    THEN [st |-> [st EXCEPT !.status = ev.op], failed |-> {}]
  ELSE IF Throws(ev, st)
    THEN [st |-> [st EXCEPT !.status = "BcmPortNotFound"], failed |-> {}]
  ELSE [st |-> Apply(ev, st), failed |-> {}]

\* one step: the state it leaves and the outcome in which its call fails
Step(ev, st) ==
  IF ev.t = "hw"
    THEN [st |-> [st EXCEPT !.calls = Append(@, Call(ev, TRUE)),
                            !.hwLanes = IF ev.op = "setLanesControl"
                                          THEN ev.val ELSE @],
          failed |-> {[st EXCEPT !.calls = Append(@, Call(ev, FALSE)),
                                 !.status = "HardwareCallFailure"]}]
  ELSE IF ev.t = "throw"
    THEN [st |-> [st EXCEPT !.status = ev.op], failed |-> {}]
  ELSE IF Throws(ev, st)
    THEN [st |-> [st EXCEPT !.status = "BcmPortNotFound"], failed |-> {}]
  ELSE [st |-> Apply(ev, st), failed |-> {}]

\* the steps lo..hi in order, stopping at the first throw
RECURSIVE RunSteps(_, _, _, _)
RunSteps(events, lo, hi, st) ==
  IF lo = hi THEN Step(events[lo], st)
  ELSE
    LET mid == (lo + hi) \div 2
        left == RunSteps(events, lo, mid, st)
    IN IF left.st.status # "run" THEN left
       ELSE LET right == RunSteps(events, mid + 1, hi, left.st) IN
            [st |-> right.st, failed |-> left.failed \cup right.failed]

Outcomes(events, st) ==
  LET r == RunSteps(events, 1, Len(events), st) IN
  r.failed \cup {IF r.st.status = "run"
                   THEN [r.st EXCEPT !.status = "ok", !.progress = "returned"]
                   ELSE r.st}

Group == [laneMode |-> laneMode_, allPorts |-> allPorts_,
          controllingPort |-> controllingPort_, portTable |-> portTable,
          hwLanes |-> hwLanes, gen |-> gen]

StartOf(g) ==
  [laneMode |-> g.laneMode, allPorts |-> g.allPorts,
   controllingPort |-> g.controllingPort, portTable |-> g.portTable,
   hwLanes |-> g.hwLanes, gen |-> g.gen,
   calls |-> << >>, notified |-> << >>, status |-> "run", progress |-> "none"]

\* the ways reconfigureIfNeeded(oldState, newState) can end
reconfigureIfNeeded(g, plat, old, new, addOrd) ==
  Outcomes(reconfigureIfNeededEvents(g, plat, old, new, addOrd), StartOf(g))

(***************************************************************************)
(* Bounded inputs                                                          *)
(***************************************************************************)
\* handle generations a run may create
MaxGen == 2

\* the speeds the ports of the group support (Gbps)
PortSpeeds == {DEFAULT, 10, 20, 25, 40, 50, 100}

\* the capabilities of the platform and of the controlling platform port
Platforms ==
  [usePortResourceAPIs : BOOLEAN, supportsAddRemovePort : BOOLEAN,
   hasSupportedProfiles : BOOLEAN, hasPlatformPorts : BOOLEAN,
   laneSpeeds : {<< 10, 25 >>}, supportedSpeeds : {PortSpeeds}]

\* values the lane-count register may hold when the group is constructed
HwLaneCounts == {1, 2, 3, 4}

dis10 == Cfg(FALSE, 10, "P1")
en10 == Cfg(TRUE, 10, "P1")
en25 == Cfg(TRUE, 25, "P1")
en20 == Cfg(TRUE, 20, "P2")
en40 == Cfg(TRUE, 40, "P4")
enDefault == Cfg(TRUE, DEFAULT, "PX")
dis200 == Cfg(FALSE, 200, "P1")

SwitchStates ==
  { MkState(en10, en10, en10, en10),
    MkState(en25, en10, en10, en10),
    MkState(en20, dis10, en20, dis10),
    MkState(en40, dis10, dis10, dis10),
    MkState(en40, Absent, Absent, Absent),
    MkState(en20, Absent, en20, Absent),
    MkState(enDefault, dis10, dis10, dis10),
    MkState(Absent, en10, en10, en10),
    MkState(en10, en10, en10, dis200) }

\* the order in which the resource builder returns the added ports
AddOrders == {"asGiven", "reversed"}

(***************************************************************************)
(* Construction                                                            *)
(***************************************************************************)
RECURSIVE InsertById(_, _)
InsertById(sorted, port) ==
  IF sorted = << >> THEN << port >>
  ELSE IF port.id < Head(sorted).id THEN << port >> \o sorted
  ELSE << Head(sorted) >> \o InsertById(Tail(sorted), port)

\* std::sort(allPorts_) by port id
RECURSIVE SortById(_)
SortById(ports) ==
  IF ports = << >> THEN << >>
  ELSE InsertById(SortById(Tail(ports)), Head(ports))

\* the BcmPorts that exist when the register holds this lane count
LanePorts(lanes) ==
  IF lanes = 4 THEN << 1 >>
  ELSE IF lanes = 2 THEN << 3, 1 >>
  ELSE IF lanes = 3 THEN << 4, 3, 1 >>
  ELSE << 4, 3, 2, 1 >>

\* the allPorts argument of the constructor, in the caller's order: every
\* lane has a BcmPort unless ports are added and removed with the lane mode
CtorPortList(plat, lanes) ==
  IF plat.usePortResourceAPIs /\ plat.supportsAddRemovePort
    THEN LanePorts(lanes) ELSE << 4, 3, 2, 1 >>

CalcIdleIn == [fn |-> "none", speed |-> DEFAULT, laneSpeeds |-> << >>, ports |-> << >>]
CalcIdleOut == [done |-> FALSE, res |-> Err("none"), running |-> << >>]

Init ==
  /\ platform \in Platforms
  /\ hwLanes \in HwLaneCounts
  /\ laneMode_ = numLanesToLaneMode(hwLanes)
  /\ LET ids == CtorPortList(platform, hwLanes) IN
       allPorts_ = SortById([i \in 1..Len(ids) |-> [id |-> ids[i], h |-> 0]])
  /\ controllingPort_ = [id |-> 1, h |-> 0]
  /\ portTable = [id \in {allPorts_[i].id : i \in 1..Len(allPorts_)} |-> 0]
  /\ gen = 0
  /\ newState \in SwitchStates
  /\ oldState = newState
  /\ candidate = newState
  /\ op = "ctor"
  /\ result = "ok"
  /\ calls = << >>
  /\ notified = << >>
  /\ alive = TRUE
  /\ progress = "none"
  /\ before = Group
  /\ calcIn = CalcIdleIn
  /\ calcOut = CalcIdleOut

(***************************************************************************)
(* Operations exposed to the pipeline                                      *)
(***************************************************************************)
Validate(s) ==
  /\ alive
  /\ op # "validate"
  /\ candidate' = s
  /\ op' = "validate"
  /\ result' = validConfiguration(platform, allPorts_, s)
  /\ calls' = << >>
  /\ notified' = << >>
  /\ progress' = "none"
  /\ before' = Group
  /\ UNCHANGED << platform, groupVars, oldState, newState, alive, calcIn, calcOut >>

\* r is the outcome of reconfigureIfNeeded(old, new)
Returned(old, new, r) ==
  /\ laneMode_' = r.laneMode
  /\ allPorts_' = r.allPorts
  /\ controllingPort_' = r.controllingPort
  /\ portTable' = r.portTable
  /\ hwLanes' = r.hwLanes
  /\ gen' = r.gen
  /\ oldState' = old
  /\ newState' = new
  /\ candidate' = new
  /\ op' = "reconfigure"
  /\ result' = r.status
  /\ calls' = r.calls
  /\ notified' = r.notified
  /\ alive' = (r.status = "ok")
  /\ progress' = r.progress
  /\ before' = Group
  /\ UNCHANGED << platform, calcIn, calcOut >>

\* the builder's order matters only where the flex branch can run
AddOrdersOf(plat) ==
  IF plat.usePortResourceAPIs /\ plat.supportsAddRemovePort
    THEN AddOrders ELSE {"asGiven"}

Reconfigure(old, new) ==
  /\ alive
  /\ gen < MaxGen
  /\ op = "validate" => new = candidate
  /\ \E addOrd \in AddOrdersOf(platform) :
       \E r \in reconfigureIfNeeded(Group, platform, old, new, addOrd) :
         Returned(old, new, r)

\* the pipeline applies the delta from the state it applied last
ReconfigureDelta == \E new \in SwitchStates : Reconfigure(newState, new)

\* the pipeline calls with oldState == newState
ReconfigureSame == op # "validate" /\ Reconfigure(newState, newState)

ValidateAny == \E s \in SwitchStates : Validate(s)

Next == ValidateAny \/ ReconfigureDelta \/ ReconfigureSame

Spec == Init /\ [][Next]_vars

(***************************************************************************)
(* SpecCalc: the calculation functions on bounded inputs                   *)
(***************************************************************************)
\* longest port list and longest lane-speed list given to the calculation
MaxPorts == 4
MaxLaneSpeeds == 3

CalcSpeeds == {DEFAULT, 10, 20, 25, 30, 40, 50, 100}
LaneSpeedVals == {10, 25, 50}

SeqsUpTo(S, n) == UNION {[1..k -> S] : k \in 0..n}

LaneSpeedSeqs ==
  {ls \in SeqsUpTo(LaneSpeedVals, MaxLaneSpeeds) :
     \A i, j \in 1..Len(ls) : i # j => ls[i] # ls[j]}

SpeedPathCfgs ==
  {[id |-> 0, enabled |-> e, speed |-> sp, profile |-> "P1"] :
     e \in BOOLEAN, sp \in {DEFAULT, 10, 15, 20, 40}}

ProfilePathCfgs ==
  {[id |-> 0, enabled |-> e, speed |-> 10, profile |-> pr] :
     e \in BOOLEAN, pr \in ProfileIDs}

CalcInputs ==
  [fn : {"needed"}, speed : CalcSpeeds, laneSpeeds : LaneSpeedSeqs, ports : {<< >>}]
  \cup [fn : {"speed"}, speed : {DEFAULT},
        laneSpeeds : {<< 10 >>, << 10, 25 >>, << 25, 10 >>,
                      << 10, 20 >>, << 20, 10 >>},
        ports : SeqsUpTo(SpeedPathCfgs, MaxPorts)]
  \cup [fn : {"profile"}, speed : {DEFAULT}, laneSpeeds : {<< >>},
        ports : SeqsUpTo(ProfilePathCfgs, MaxPorts)]

InitCalc ==
  /\ platform = [usePortResourceAPIs |-> FALSE, supportsAddRemovePort |-> FALSE,
                 hasSupportedProfiles |-> FALSE, hasPlatformPorts |-> FALSE,
                 laneSpeeds |-> << 10, 25 >>, supportedSpeeds |-> PortSpeeds]
  /\ hwLanes = 1
  /\ laneMode_ = numLanesToLaneMode(hwLanes)
  /\ allPorts_ = [i \in 1..GroupSize |-> [id |-> i, h |-> 0]]
  /\ controllingPort_ = [id |-> 1, h |-> 0]
  /\ portTable = [id \in PortIDs |-> 0]
  /\ gen = 0
  /\ newState = MkState(en10, en10, en10, en10)
  /\ oldState = newState
  /\ candidate = newState
  /\ op = "ctor"
  /\ result = "ok"
  /\ calls = << >>
  /\ notified = << >>
  /\ alive = TRUE
  /\ progress = "none"
  /\ before = Group
  /\ calcIn \in CalcInputs
  /\ calcOut = CalcIdleOut

mainVars == << platform, groupVars, oldState, newState, candidate, op, result,
               calls, notified, alive, progress, before >>

ApplyNeededLaneModeForSpeed ==
  /\ calcIn.fn = "needed"
  /\ ~calcOut.done
  /\ calcOut' = [done |-> TRUE,
                 res |-> neededLaneModeForSpeed(calcIn.speed, calcIn.laneSpeeds),
                 running |-> << >>]
  /\ UNCHANGED << mainVars, calcIn >>

ApplyCalculateDesiredLaneMode ==
  /\ calcIn.fn = "speed"
  /\ ~calcOut.done
  /\ LET c == calculateDesiredLaneMode(calcIn.ports, calcIn.laneSpeeds) IN
       calcOut' = [done |-> TRUE, res |-> c.res, running |-> c.running]
  /\ UNCHANGED << mainVars, calcIn >>

ApplyCalculateDesiredLaneModeFromConfig ==
  /\ calcIn.fn = "profile"
  /\ ~calcOut.done
  /\ LET c == calculateDesiredLaneModeFromConfig(calcIn.ports, supportedProfiles) IN
       calcOut' = [done |-> TRUE, res |-> c.res, running |-> c.running]
  /\ UNCHANGED << mainVars, calcIn >>

NextCalc ==
  \/ ApplyNeededLaneModeForSpeed
  \/ ApplyCalculateDesiredLaneMode
  \/ ApplyCalculateDesiredLaneModeFromConfig

SpecCalc == InitCalc /\ [][NextCalc]_vars

(***************************************************************************)
(* Properties of the calculation (SpecCalc)                                *)
(***************************************************************************)
MaxOf(S) == CHOOSE m \in S : \A n \in S : n <= m
MinOf(S) == CHOOSE m \in S : \A n \in S : m <= n

\* the placement rule: QUAD only at lane 0, DUAL only at lanes 0 and 2
LegalPlacement(lane, mode) ==
  /\ mode = QUAD => lane = 0
  /\ mode = DUAL => lane \in {0, 2}

Aggregated == calcOut.done /\ calcIn.fn \in {"speed", "profile"}

\* C8: whenever the aggregation (speed path or profile path) returns a mode M,
\* every enabled member of the port list is at a lane index legal for M.
C8_PlacementLegalForResult ==
  (Aggregated /\ calcOut.res.ok) =>
    \A i \in 1..Len(calcIn.ports) :
      calcIn.ports[i].enabled => LegalPlacement(i - 1, calcOut.res.mode)

\* the mode of a quotient of 1..4
ModeOfQuotient(q) == IF q = 1 THEN SINGLE ELSE IF q = 2 THEN DUAL ELSE QUAD

\* the candidates that divide the speed with zero remainder
Dividing(speed, ls) == {i \in 1..Len(ls) : speed % ls[i] = 0}

\* the reference of the claim: the first dividing candidate decides, and a
\* quotient above 4 is not accepted
RefFirstDividing(speed, ls) ==
  IF speed = DEFAULT THEN Err("InvalidConfig")
  ELSE IF Dividing(speed, ls) = {} THEN Err("UnsupportedSpeed")
  ELSE LET q == speed \div ls[MinOf(Dividing(speed, ls))] IN
       IF q \in 1..4 THEN Ok(ModeOfQuotient(q)) ELSE Err("UnsupportedSpeed")

\* the candidates that divide the speed with a quotient of 1..4
Usable(speed, ls) == {i \in Dividing(speed, ls) : (speed \div ls[i]) \in 1..4}

RefFirstUsable(speed, ls) ==
  IF speed = DEFAULT THEN Err("InvalidConfig")
  ELSE IF Usable(speed, ls) = {} THEN Err("UnsupportedSpeed")
  ELSE Ok(ModeOfQuotient(speed \div ls[MinOf(Usable(speed, ls))]))

NeededApplied == calcOut.done /\ calcIn.fn = "needed"

\* C9 as claimed: the result of neededLaneModeForSpeed is decided by the first
\* candidate that divides the speed evenly; UnsupportedSpeed when it gives a
\* quotient above 4 or when no candidate divides.
C9_FirstDividingDecides ==
  NeededApplied => calcOut.res = RefFirstDividing(calcIn.speed, calcIn.laneSpeeds)

\* C9 (amended): the default speed yields InvalidConfig; otherwise the result
\* is decided by the first candidate, in iteration order, that divides the
\* speed evenly with a quotient of 1..4 (1 SINGLE, 2 DUAL, 3 or 4 QUAD), and
\* UnsupportedSpeed is raised when no candidate does.
C9_FirstUsableDecides ==
  NeededApplied => calcOut.res = RefFirstUsable(calcIn.speed, calcIn.laneSpeeds)

\* a candidate with a quotient above 4 was passed over and a later one decided
C9_Witness ==
  /\ NeededApplied
  /\ calcOut.res.ok
  /\ \E i \in Dividing(calcIn.speed, calcIn.laneSpeeds) :
       /\ (calcIn.speed \div calcIn.laneSpeeds[i]) > 4
       /\ \E j \in Usable(calcIn.speed, calcIn.laneSpeeds) : i < j

\* the mode one enabled member requires on its own
RequiredAlone(port) ==
  IF calcIn.fn = "speed"
    THEN neededLaneModeForSpeed(port.speed, calcIn.laneSpeeds).mode
    ELSE numLanesToLaneMode(supportedProfiles[port.profile])

EnabledIn(ports) == {i \in 1..Len(ports) : ports[i].enabled}

\* the port list with the speed and profile of the disabled members erased
DisabledErased(ports) ==
  [i \in 1..Len(ports) |->
     IF ports[i].enabled THEN ports[i]
     ELSE [ports[i] EXCEPT !.speed = DEFAULT, !.profile = "PX"]]

AggregationOf(ports) ==
  IF calcIn.fn = "speed"
    THEN calculateDesiredLaneMode(ports, calcIn.laneSpeeds).res
    ELSE calculateDesiredLaneModeFromConfig(ports, supportedProfiles).res

\* C10: when the aggregation succeeds its running value never decreases from
\* one member to the next and the result is the maximum of the modes the
\* enabled members require on their own (SINGLE when none is enabled); the
\* speed and profile of disabled members do not change the outcome.
C10_AggregateIsMaximum ==
  Aggregated =>
    /\ calcOut.res = AggregationOf(DisabledErased(calcIn.ports))
    /\ calcOut.res.ok =>
         /\ Len(calcOut.running) = Len(calcIn.ports)
         /\ \A k \in 1..Len(calcOut.running) :
              /\ SINGLE <= calcOut.running[k]
              /\ k > 1 => calcOut.running[k - 1] <= calcOut.running[k]
         /\ calcOut.res.mode =
              MaxOf({SINGLE} \cup
                    {RequiredAlone(calcIn.ports[i]) : i \in EnabledIn(calcIn.ports)})

\* a later member requires less than an earlier one, and a disabled member
\* has the default speed
C10_Witness ==
  /\ Aggregated
  /\ calcIn.fn = "speed"
  /\ calcOut.res.ok
  /\ calcOut.res.mode = DUAL
  /\ \E i, j \in EnabledIn(calcIn.ports) :
       i < j /\ RequiredAlone(calcIn.ports[i]) > RequiredAlone(calcIn.ports[j])
  /\ \E i \in 1..Len(calcIn.ports) :
       ~calcIn.ports[i].enabled /\ calcIn.ports[i].speed = DEFAULT

(***************************************************************************)
(* Properties of the port group (Spec)                                     *)
(***************************************************************************)
Range(f) == {f[i] : i \in DOMAIN f}

IsPrefix(a, b) == Len(a) <= Len(b) /\ \A i \in 1..Len(a) : a[i] = b[i]

\* the desired lane mode the group computes from a switch state
DesiredOf(plat, members, state) ==
  LET got == getSwPorts(plat, members, state) IN
  IF ~got.ok THEN Err(got.err) ELSE desiredLaneModeOf(plat, got.ports).res

\* C1 as claimed: reconfigureIfNeeded called with oldState == newState issues
\* no hardware-mutating call, whatever lane mode the group records.
C1_SameStateNoHardwareCall ==
  (op = "reconfigure" /\ oldState = newState) => calls = << >>

\* C1 (amended): reconfigureIfNeeded called with oldState == newState issues
\* no hardware-mutating call when the desired lane mode computed from the
\* state equals the lane mode the group records (or cannot be computed).
C1_SameStateSameModeNoHardwareCall ==
  (/\ op = "reconfigure"
   /\ oldState = newState
   /\ LET d == DesiredOf(platform, before.allPorts, newState) IN
        ~d.ok \/ d.mode = before.laneMode)
  => calls = << >>

\* a call with oldState == newState returned without touching the hardware
C1_Witness ==
  /\ op = "reconfigure"
  /\ oldState = newState
  /\ result = "ok"
  /\ progress = "returned"
  /\ calls = << >>

\* the members whose speed differs between the two states of the last call
SpeedChanged(members, old, new) ==
  {[port |-> members[k].id, speed |-> new[members[k].id].speed] :
     k \in {k \in 1..Len(members) :
              /\ old[members[k].id].present
              /\ new[members[k].id].present
              /\ old[members[k].id].speed # new[members[k].id].speed}}

\* the group is as it was before the last operation
GroupUntouched ==
  /\ laneMode_ = before.laneMode
  /\ allPorts_ = before.allPorts
  /\ controllingPort_ = before.controllingPort
  /\ portTable = before.portTable
  /\ hwLanes = before.hwLanes

\* C2: when the desired lane mode computed from newState equals the recorded
\* lane mode, no step of the transition sequence runs, lane mode, membership
\* and registry are unchanged, and linkSpeedChanged(newSpeed) is issued for
\* exactly the members present in both port lists whose speed differs.
C2_SameModeOnlyNotifies ==
  (/\ op = "reconfigure"
   /\ getSwPorts(platform, before.allPorts, oldState).ok
   /\ LET d == DesiredOf(platform, before.allPorts, newState) IN
        d.ok /\ d.mode = before.laneMode)
  => /\ result = "ok"
     /\ calls = << >>
     /\ GroupUntouched
     /\ Range(notified) = SpeedChanged(before.allPorts, oldState, newState)
     /\ Len(notified) = Cardinality(SpeedChanged(before.allPorts, oldState, newState))

\* a speed-only change was notified and nothing else was done
C2_Witness ==
  /\ op = "reconfigure"
  /\ result = "ok"
  /\ calls = << >>
  /\ notified # << >>

\* getSwPorts throws: without platform ports, a member is missing from the
\* state or is configured at a speed its port does not support
GatherFails(plat, members, state) ==
  /\ ~plat.hasPlatformPorts
  /\ \E k \in 1..Len(members) :
       \/ ~state[members[k].id].present
       \/ state[members[k].id].speed \notin plat.supportedSpeeds

\* the ports of the group that the candidate state holds: in the order of
\* the platform config, else in the order of the members
CandidatePorts(plat, members, state) ==
  IF plat.hasPlatformPorts THEN platformPortsOfGroup(state, 1)
  ELSE LET held == SelectSeq(members, LAMBDA m : state[m.id].present) IN
       [k \in 1..Len(held) |-> SwPort(held[k].id, state[held[k].id])]

CandidateComputes(plat, members, state) ==
  desiredLaneModeOf(plat, CandidatePorts(plat, members, state)).res.ok

\* C3 as claimed: validConfiguration changes nothing, lets no error escape and
\* returns false exactly when the desired-lane-mode computation for the
\* candidate ports fails.
C3_FalseIffComputationFails ==
  op = "validate"
  => /\ GroupUntouched
     /\ calls = << >>
     /\ result \in {"true", "false"}
     /\ (result = "false")
          <=> ~CandidateComputes(platform, before.allPorts, candidate)

\* C3 (amended): validConfiguration changes nothing, lets no error escape and
\* returns false exactly when collecting the group's ports from the candidate
\* state fails or the desired-lane-mode computation over them fails.
C3_FalseIffGatherOrComputationFails ==
  op = "validate"
  => /\ GroupUntouched
     /\ calls = << >>
     /\ result \in {"true", "false"}
     /\ (result = "false")
          <=> (\/ GatherFails(platform, before.allPorts, candidate)
               \/ ~CandidateComputes(platform, before.allPorts, candidate))

\* a candidate was refused although its lane mode can be computed
C3_Witness ==
  /\ op = "validate"
  /\ result = "false"
  /\ GatherFails(platform, allPorts_, candidate)
  /\ CandidateComputes(platform, allPorts_, candidate)

ComputationErrors == {"InvalidConfig", "UnsupportedSpeed", "UnknownProfile",
                      "InvalidLaneCount", "InvalidPlacement"}

\* C4: when reconfigureIfNeeded fails with a computation-only error, no
\* hardware-mutating call was issued in that invocation and lane mode,
\* membership and registry are as before the call.
C4_ComputationErrorBeforeHardware ==
  (op = "reconfigure" /\ result \in ComputationErrors)
  => (calls = << >> /\ GroupUntouched)

\* a reconfiguration was refused for an enabled port at the default speed
C4_Witness ==
  /\ op = "reconfigure"
  /\ result = "InvalidConfig"
  /\ \E id \in PortIDs : newState[id].enabled /\ newState[id].speed = DEFAULT

\* the lane counts written to the register, in order
LaneWrites(c) ==
  LET w == SelectSeq(c, LAMBDA x : x.op = "setLanesControl") IN
  [i \in 1..Len(w) |-> w[i].val]

\* the transition table of the claim
TableLaneWrites(from, to) ==
  IF {from, to} = {SINGLE, DUAL} THEN << 4, to >> ELSE << to >>

\* the transition branch of the last reconfiguration returned
TransitionReturned == progress \in {"transitioned", "linkscanned", "returned"}

\* C5: on the legacy path a transition between SINGLE and DUAL writes the lane
\* count 4 and then the desired count to the controlling port, a transition
\* between QUAD and SINGLE or DUAL writes the desired count once; an aborted
\* transition has written a prefix of these.
C5_LegacyLaneWrites ==
  LET d == DesiredOf(platform, before.allPorts, newState) IN
  (/\ op = "reconfigure"
   /\ ~platform.usePortResourceAPIs
   /\ d.ok
   /\ d.mode # before.laneMode
   /\ {d.mode, before.laneMode} \subseteq {SINGLE, DUAL, QUAD})
  => /\ IsPrefix(LaneWrites(calls), TableLaneWrites(before.laneMode, d.mode))
     /\ \A i \in 1..Len(calls) :
          calls[i].op = "setLanesControl" => calls[i].port = before.controllingPort.id
     /\ TransitionReturned
          => /\ LaneWrites(calls) = TableLaneWrites(before.laneMode, d.mode)
             /\ laneMode_ = d.mode

\* a legacy transition from SINGLE to DUAL completed
C5_Witness ==
  /\ op = "reconfigure"
  /\ ~platform.usePortResourceAPIs
  /\ result = "ok"
  /\ before.laneMode = SINGLE
  /\ laneMode_ = DUAL
  /\ LaneWrites(calls) = << 4, 2 >>

BuilderOps == {"removePorts", "addPorts", "program"}

CallsOf(c, o) == {i \in 1..Len(c) : c[i].op = o}

\* the flex branch of the last reconfiguration returned
FlexCompleted == CallsOf(calls, "program") # {} /\ TransitionReturned

\* C6: after a successful flex transition the registry entries of the group
\* are exactly the newly created identifiers, each with a new handle, no old
\* handle is left, and the controlling-port handle is the live entry of the
\* controlling-port identifier.
C6_FlexRegistryPostcondition ==
  (op = "reconfigure" /\ FlexCompleted)
  => LET added == calls[CHOOSE i \in CallsOf(calls, "addPorts") : TRUE].ids IN
     /\ DOMAIN portTable = Range(added)
     /\ \A id \in DOMAIN portTable : portTable[id] > before.gen
     /\ \A k \in 1..Len(before.allPorts) :
          before.allPorts[k].id \in DOMAIN portTable
            => portTable[before.allPorts[k].id] # before.allPorts[k].h
     /\ controllingPort_.id = before.controllingPort.id
     /\ controllingPort_.id \in DOMAIN portTable
     /\ controllingPort_.h = portTable[controllingPort_.id]

\* four SINGLE ports were replaced by one QUAD port
C6_Witness ==
  /\ op = "reconfigure"
  /\ result = "ok"
  /\ FlexCompleted
  /\ Len(before.allPorts) = 4
  /\ DOMAIN portTable = {1}
  /\ laneMode_ = QUAD

IsPurge(c) == c.op = "l2AddrDeleteByPort"
IsTrapDisable(c) == c.op = "switchControlPortSet" /\ c.val = 0

\* C7: in a flex transition every current member has had its static and its
\* pending forwarding entries purged and its five traps disabled before the
\* members are submitted for removal; no builder operation precedes a purge
\* or a trap disable, and a failed purge stops the sequence before removal.
C7_PurgeBeforeRemoval ==
  op = "reconfigure"
  => LET builder == {i \in 1..Len(calls) : calls[i].op \in BuilderOps}
         cleared == {j \in 1..Len(calls) :
                       IsPurge(calls[j]) \/ IsTrapDisable(calls[j])}
         done(port, o, val, what) ==
           \E j \in cleared :
             /\ calls[j].ok /\ calls[j].port = port /\ calls[j].op = o
             /\ calls[j].val = val /\ calls[j].what = what
     IN
     /\ \A i \in CallsOf(calls, "removePorts") :
          /\ calls[i].ids = Ids(before.allPorts)
          /\ \A k \in 1..Len(before.allPorts) :
               /\ done(before.allPorts[k].id, "l2AddrDeleteByPort", 0, "static")
               /\ done(before.allPorts[k].id, "l2AddrDeleteByPort", 0, "pending")
               /\ \A t \in 1..Len(TrapKinds) :
                    done(before.allPorts[k].id, "switchControlPortSet", 0, TrapKinds[t])
     /\ builder # {} => \A j \in cleared : j < MinOf(builder)
     /\ (\E j \in cleared : IsPurge(calls[j]) /\ ~calls[j].ok) => builder = {}

\* four members were purged and then removed
C7_Witness ==
  /\ op = "reconfigure"
  /\ result = "ok"
  /\ Len(before.allPorts) = 4
  /\ \E i \in CallsOf(calls, "removePorts") : Len(calls[i].ids) = 4
  /\ Cardinality({j \in 1..Len(calls) : IsPurge(calls[j])}) = 8

\* C11: in every reachable state the member list of the group is sorted
\* strictly ascending by port identifier, whatever the order in which the
\* resource builder returns the added ports.
C11_MembersSortedById ==
  \A i \in 1..(Len(allPorts_) - 1) : allPorts_[i].id < allPorts_[i + 1].id

OpsOf(c) == {c[i].op : i \in 1..Len(c)}

FlexOps == {"l2AddrDeleteByPort", "switchControlPortSet",
            "removePorts", "addPorts", "program"}

DisableOps == {"disableLinkscan", "disable"}

\* the last call was a reconfiguration whose desired lane mode differs from
\* the recorded one
LaneModeChanging ==
  /\ op = "reconfigure"
  /\ getSwPorts(platform, before.allPorts, oldState).ok
  /\ LET d == DesiredOf(platform, before.allPorts, newState) IN
       d.ok /\ d.mode # before.laneMode

\* the disabling loop of the last reconfiguration completed
ReachedSetActiveLanes == LaneModeChanging /\ progress # "computed"

\* C12: the flex branch runs exactly when the controlling platform port uses
\* the resource API and the legacy register write exactly when it does not;
\* when it does and the platform cannot add or remove ports the call fails
\* with UnsupportedPlatformOperation, having issued no register write, purge,
\* trap toggle or builder operation, with lane mode, membership and registry
\* unchanged.
C12_BackendSelection ==
  op = "reconfigure"
  => /\ platform.usePortResourceAPIs => "setLanesControl" \notin OpsOf(calls)
     /\ ~platform.usePortResourceAPIs => OpsOf(calls) \cap FlexOps = {}
     /\ ReachedSetActiveLanes
          => IF ~platform.usePortResourceAPIs
               THEN "setLanesControl" \in OpsOf(calls)
             ELSE IF platform.supportsAddRemovePort
               THEN "l2AddrDeleteByPort" \in OpsOf(calls)
             ELSE result = "UnsupportedPlatformOperation"
     /\ result = "UnsupportedPlatformOperation"
          => /\ platform.usePortResourceAPIs
             /\ ~platform.supportsAddRemovePort
             /\ ReachedSetActiveLanes
     /\ (platform.usePortResourceAPIs /\ ~platform.supportsAddRemovePort)
          => /\ OpsOf(calls) \subseteq DisableOps
             /\ GroupUntouched

\* a platform port that uses the resource API on a platform that cannot add
\* or remove ports: the ports were disabled and the call failed
C12_Witness ==
  /\ op = "reconfigure"
  /\ result = "UnsupportedPlatformOperation"
  /\ "disable" \in OpsOf(calls)
  /\ GroupUntouched

\* the lane count the register holds after these calls
LanesAfter(c, lanes) ==
  LET w == {i \in 1..Len(c) : c[i].op = "setLanesControl" /\ c[i].ok} IN
  IF w = {} THEN lanes ELSE c[MaxOf(w)].val

IsTrapEnable(c) == c.op = "switchControlPortSet" /\ c.val = 1

\* C13: a hardware call that fails is the last call of the invocation (no
\* retry, no later call), its failure reaches the caller of
\* reconfigureIfNeeded, and nothing applied before it is undone: no port is
\* enabled, no trap is set again unless program() has succeeded, and the
\* register holds the last count written.
C13_FailurePropagatesNoRollback ==
  op = "reconfigure"
  => /\ \A i \in 1..Len(calls) : ~calls[i].ok => i = Len(calls)
     /\ (result = "HardwareCallFailure")
          <=> (calls # << >> /\ ~calls[Len(calls)].ok)
     /\ result = "HardwareCallFailure" => ~alive
     /\ "enable" \notin OpsOf(calls)
     /\ \A i \in 1..Len(calls) :
          IsTrapEnable(calls[i])
            => \E j \in 1..(i - 1) : calls[j].op = "program" /\ calls[j].ok
     /\ hwLanes = LanesAfter(calls, before.hwLanes)

\* the second register write of a legacy transition failed: the ports stay
\* disabled and the register holds the intermediate count
C13_Witness ==
  /\ op = "reconfigure"
  /\ result = "HardwareCallFailure"
  /\ "disable" \in OpsOf(calls)
  /\ calls[Len(calls)].op = "setLanesControl"
  /\ hwLanes = 4
  /\ before.hwLanes # 4
  /\ laneMode_ = before.laneMode

MutatingOps == {"setLanesControl"} \cup FlexOps

\* C14: before the first register write, purge, trap toggle or builder
\* operation of a reconfiguration, every member of the group has had linkscan
\* disabled and then the port disabled, member by member.
C14_DisabledBeforeLaneChange ==
  op = "reconfigure"
  => LET mut == {i \in 1..Len(calls) : calls[i].op \in MutatingOps}
         n == Len(before.allPorts)
     IN mut # {}
          => /\ MinOf(mut) = 2 * n + 1
             /\ \A k \in 1..n :
                  /\ calls[2 * k - 1].op = "disableLinkscan"
                  /\ calls[2 * k - 1].port = before.allPorts[k].id
                  /\ calls[2 * k - 1].ok
                  /\ calls[2 * k].op = "disable"
                  /\ calls[2 * k].port = before.allPorts[k].id
                  /\ calls[2 * k].ok

\* four members were disabled before a purge, two before a register write
C14_Witness ==
  /\ op = "reconfigure"
  /\ \/ /\ Len(before.allPorts) = 4
        /\ Len(calls) > 8
        /\ calls[9].op = "l2AddrDeleteByPort"
     \/ /\ Len(before.allPorts) = 4
        /\ Len(calls) > 8
        /\ calls[9].op = "setLanesControl"

\* the ports of the group in the new state of the last reconfiguration
NewPortsGot == getSwPorts(platform, before.allPorts, newState)

\* program() of the last reconfiguration returned success
Programmed == \E i \in CallsOf(calls, "program") : calls[i].ok

\* C15: in a flex transition the builder receives removePorts (the current
\* members), addPorts (the new port list) and program() once each, in that
\* order; unless program() succeeded, registry, member list, controlling
\* handle and lane mode are unchanged; after it they change in the order
\* registry, member list, trap re-enable on each new member, lane mode.
C15_FlexCommitOrder ==
  (op = "reconfigure" /\ platform.usePortResourceAPIs)
  => LET rm == CallsOf(calls, "removePorts")
         ad == CallsOf(calls, "addPorts")
         pg == CallsOf(calls, "program")
         trapsOn == {i \in 1..Len(calls) : IsTrapEnable(calls[i]) /\ calls[i].ok}
     IN
     /\ Cardinality(rm) <= 1 /\ Cardinality(ad) <= 1 /\ Cardinality(pg) <= 1
     /\ \A i \in rm : calls[i].ids = Ids(before.allPorts)
     /\ \A i \in ad : /\ (i - 1) \in rm
                      /\ calls[i].ids = Ids(NewPortsGot.ports)
     /\ \A i \in pg : (i - 1) \in ad
     /\ ~Programmed
          => /\ portTable = before.portTable
             /\ allPorts_ = before.allPorts
             /\ controllingPort_ = before.controllingPort
             /\ laneMode_ = before.laneMode
     /\ allPorts_ # before.allPorts
          => /\ DOMAIN portTable = Range(Ids(allPorts_))
             /\ \A k \in 1..Len(allPorts_) :
                  /\ allPorts_[k].h = portTable[allPorts_[k].id]
                  /\ allPorts_[k].h > before.gen
             /\ controllingPort_.h = portTable[controllingPort_.id]
     /\ \A i \in 1..Len(calls) :
          IsTrapEnable(calls[i])
            => /\ allPorts_ # before.allPorts
               /\ calls[i].port \in Range(Ids(allPorts_))
     /\ laneMode_ # before.laneMode
          => /\ Cardinality(trapsOn) = Len(TrapKinds) * Len(allPorts_)
             /\ laneMode_ = DesiredOf(platform, before.allPorts, newState).mode
     /\ (LaneModeChanging /\ result = "ok")
          => laneMode_ = DesiredOf(platform, before.allPorts, newState).mode

\* a trap re-enable failed after program(): registry and member list are the
\* new ones and the lane mode is still the old one
C15_Witness ==
  /\ op = "reconfigure"
  /\ Programmed
  /\ result = "HardwareCallFailure"
  /\ IsTrapEnable(calls[Len(calls)])
  /\ allPorts_ # before.allPorts
  /\ portTable # before.portTable
  /\ laneMode_ = before.laneMode

\* C16: linkscan is re-enabled only after the lane transition has succeeded
\* and only for enabled ports of the new port list, once each; a
\* reconfiguration that returns has done so for all of them; no
\* port-enable operation is ever issued.
C16_LinkscanOnlyForEnabledNewPorts ==
  op = "reconfigure"
  => LET en == CallsOf(calls, "enableLinkscan")
         mut == {i \in 1..Len(calls) : calls[i].op \in MutatingOps}
         enabledIds == {NewPortsGot.ports[k].id :
                          k \in {k \in 1..Len(NewPortsGot.ports) :
                                   NewPortsGot.ports[k].enabled}}
     IN
     /\ "enable" \notin OpsOf(calls)
     /\ \A i \in en :
          /\ LaneModeChanging
          /\ calls[i].port \in enabledIds
          /\ mut # {} /\ MaxOf(mut) < i
          /\ \A j \in mut : calls[j].ok
          /\ laneMode_ = DesiredOf(platform, before.allPorts, newState).mode
          /\ \A j \in en : calls[j].port = calls[i].port => j = i
     /\ (LaneModeChanging /\ result = "ok")
          => {calls[i].port : i \in en} = enabledIds

\* a transition to a port list with two enabled and two disabled ports
C16_Witness ==
  /\ op = "reconfigure"
  /\ result = "ok"
  /\ LaneModeChanging
  /\ Len(NewPortsGot.ports) = 4
  /\ {calls[i].port : i \in CallsOf(calls, "enableLinkscan")} = {1, 3}

\* C17 as claimed: linkSpeedChanged is issued only by an invocation in which
\* the lane mode did not change; an invocation that runs a lane-mode
\* transition issues none.
C17_NotifyOnlyWithoutTransition ==
  (op = "reconfigure" /\ notified # << >>)
  => (calls = << >> /\ laneMode_ = before.laneMode)

\* C17 (amended): every invocation that returns without error, whether or
\* not it ran a lane-mode transition, issues linkSpeedChanged(newSpeed) once
\* for each member the group has on return that is in both port lists with
\* differing speeds; an invocation that fails issues none.
C17_NotifiesOnEveryReturn ==
  op = "reconfigure"
  => /\ result # "ok" => notified = << >>
     /\ result = "ok"
          => /\ Range(notified) = SpeedChanged(allPorts_, oldState, newState)
             /\ Len(notified)
                  = Cardinality(SpeedChanged(allPorts_, oldState, newState))

\* a lane-mode transition ran and a speed change was notified after it
C17_Witness ==
  /\ op = "reconfigure"
  /\ result = "ok"
  /\ laneMode_ # before.laneMode
  /\ "disable" \in OpsOf(calls)
  /\ notified # << >>

\* C18: the recorded lane mode is SINGLE, DUAL or QUAD in every reachable
\* state, for every lane count the register reports at construction.
C18_LaneModeInEnum == laneMode_ \in {SINGLE, DUAL, QUAD}

\* the enabled members whose profile is unknown or declares a lane count
\* other than 1, 2 or 4
BadProfileMembers(ports, profiles) ==
  {i \in EnabledIn(ports) :
     \/ ports[i].profile \notin DOMAIN profiles
     \/ profiles[ports[i].profile] \notin {SINGLE, DUAL, QUAD}}

\* C19: on the profile path an enabled member with an unknown profile makes
\* the computation fail with UnknownProfile and one whose profile declares a
\* lane count other than 1, 2 or 4 makes it fail with InvalidLaneCount (the
\* first such member decides which); no lane mode is returned.
C19_ProfilePathErrors ==
  (calcOut.done /\ calcIn.fn = "profile")
  => LET bad == BadProfileMembers(calcIn.ports, supportedProfiles) IN
     bad # {}
       => calcOut.res =
            (IF calcIn.ports[MinOf(bad)].profile \notin DOMAIN supportedProfiles
               THEN Err("UnknownProfile") ELSE Err("InvalidLaneCount"))

\* member count and lane mode agree: 4 members in SINGLE, 2 in DUAL, 1 in QUAD
CountMatchesMode(mode, members) ==
  mode \in {SINGLE, DUAL, QUAD} /\ Len(members) * mode = GroupSize

\* C20 as claimed: the member count is consistent with the recorded lane
\* mode whenever no reconfiguration is in progress; a reconfiguration that
\* starts with 4 members in SINGLE, 2 in DUAL or 1 in QUAD ends, completed or
\* aborted, with such a count.
C20_MemberCountMatchesLaneMode ==
  (op = "reconfigure" /\ CountMatchesMode(before.laneMode, before.allPorts))
  => CountMatchesMode(laneMode_, allPorts_)

\* C20 (amended): a legacy reconfiguration never changes the member list, so
\* the count stays consistent only while the lane mode stays the same; a
\* flex reconfiguration replaces the member list, only after program(), by
\* the ports of the new port list, and a completed one leaves a consistent
\* count exactly when that list has 4, 2 or 1 ports for SINGLE, DUAL or QUAD.
C20_MemberCountFollowsPortList ==
  op = "reconfigure"
  => /\ ~platform.usePortResourceAPIs
          => /\ allPorts_ = before.allPorts
             /\ CountMatchesMode(before.laneMode, before.allPorts)
                  => (CountMatchesMode(laneMode_, allPorts_)
                        <=> laneMode_ = before.laneMode)
     /\ (platform.usePortResourceAPIs /\ allPorts_ # before.allPorts)
          => /\ Programmed
             /\ Len(allPorts_) = Len(NewPortsGot.ports)
             /\ Range(Ids(allPorts_)) = Range(Ids(NewPortsGot.ports))
     /\ (platform.usePortResourceAPIs /\ LaneModeChanging /\ result = "ok")
          => /\ allPorts_ # before.allPorts
             /\ CountMatchesMode(laneMode_, allPorts_)
                  <=> CountMatchesMode(laneMode_, NewPortsGot.ports)

\* a transition from SINGLE to QUAD left four members in QUAD mode
C20_Witness ==
  /\ op = "reconfigure"
  /\ result = "ok"
  /\ before.laneMode = SINGLE
  /\ laneMode_ = QUAD
  /\ Len(allPorts_) = 4

\* the speed is reachable with at most `mode` lanes at a supported lane speed
Reachable(speed, ls, mode) ==
  \E i \in 1..Len(ls) : \E n \in {SINGLE, DUAL, QUAD} :
    n <= mode /\ speed = n * ls[i]

\* every enabled member is satisfied by this mode at a legal lane
Satisfies(ports, ls, mode) ==
  \A i \in EnabledIn(ports) :
    Reachable(ports[i].speed, ls, mode) /\ LegalPlacement(i - 1, mode)

SpeedAggregated == calcOut.done /\ calcIn.fn = "speed" /\ calcOut.res.ok

\* C21 as claimed: no lane mode smaller than the result of the speed-path
\* aggregation satisfies every enabled member, for every lane-speed list and
\* every order of its candidates.
C21_ResultIsMinimal ==
  SpeedAggregated
  => \A m \in {SINGLE, DUAL, QUAD} :
       m < calcOut.res.mode => ~Satisfies(calcIn.ports, calcIn.laneSpeeds, m)

\* the first usable candidate of the list is one of fewest lanes for the speed
FirstUsableIsFewest(speed, ls) ==
  LET u == Usable(speed, ls) IN
  u # {} => \A j \in u : speed \div ls[MinOf(u)] <= speed \div ls[j]

\* C21 (amended): the result of the speed-path aggregation is minimal when,
\* for the speed of every enabled member, the first usable candidate in
\* iteration order is one that needs the fewest lanes; a candidate list that
\* offers a slower lane speed first can give a larger mode.
C21_MinimalWhenFirstUsableIsFewest ==
  (/\ SpeedAggregated
   /\ \A i \in EnabledIn(calcIn.ports) :
        FirstUsableIsFewest(calcIn.ports[i].speed, calcIn.laneSpeeds))
  => \A m \in {SINGLE, DUAL, QUAD} :
       m < calcOut.res.mode => ~Satisfies(calcIn.ports, calcIn.laneSpeeds, m)

\* 40G with lane speeds (20G, 10G): both candidates are usable, the first
\* needs two lanes and the result is DUAL
C21_Witness ==
  /\ SpeedAggregated
  /\ calcOut.res.mode = DUAL
  /\ \E i \in EnabledIn(calcIn.ports) :
       /\ Cardinality(Usable(calcIn.ports[i].speed, calcIn.laneSpeeds)) = 2
       /\ FirstUsableIsFewest(calcIn.ports[i].speed, calcIn.laneSpeeds)
       /\ calcIn.ports[i].speed \div calcIn.laneSpeeds[1] = 2

\* the last hardware call of the last reconfiguration failed
LastCallFailed == calls # << >> /\ ~calls[Len(calls)].ok

\* C22: the recorded lane mode changes only as the last step of a transition
\* branch all of whose hardware calls succeeded; when a call fails while
\* disabling, in a legacy register write or in a flex step up to the trap
\* re-enable, the recorded lane mode is what it was before the call.
C22_LaneModeRecordedLast ==
  op = "reconfigure"
  => /\ laneMode_ # before.laneMode
          => /\ LaneModeChanging
             /\ laneMode_ = DesiredOf(platform, before.allPorts, newState).mode
             /\ \A i \in 1..Len(calls) :
                  calls[i].op \in (DisableOps \cup MutatingOps) => calls[i].ok
             /\ ~platform.usePortResourceAPIs
                  => LaneWrites(calls) = TableLaneWrites(before.laneMode, laneMode_)
             /\ platform.usePortResourceAPIs
                  => Cardinality({i \in 1..Len(calls) : IsTrapEnable(calls[i])})
                       = Len(TrapKinds) * Len(allPorts_)
     /\ (LastCallFailed /\ calls[Len(calls)].op # "enableLinkscan")
          => laneMode_ = before.laneMode
     /\ result \notin {"ok", "HardwareCallFailure"} => laneMode_ = before.laneMode

\* the last trap re-enable of a flex transition failed: the lane mode is
\* still the old one
C22_Witness ==
  /\ op = "reconfigure"
  /\ LastCallFailed
  /\ IsTrapEnable(calls[Len(calls)])
  /\ Cardinality({i \in 1..Len(calls) : IsTrapEnable(calls[i])})
       = Len(TrapKinds) * Len(allPorts_)
  /\ laneMode_ = before.laneMode

\* C23 as claimed: on the legacy path the recorded lane mode equals the lane
\* count held in the register of the controlling port after construction and
\* after every reconfigureIfNeeded call, successful or aborted.
C23_LaneModeEqualsRegister ==
  ~platform.usePortResourceAPIs => laneMode_ = hwLanes

\* C23 (amended): on the legacy path the recorded lane mode equals the
\* register after construction and after every call that returns without a
\* failed register write; a transition between SINGLE and DUAL whose second
\* write fails leaves 4 in the register and the old lane mode recorded.
C23_LaneModeEqualsRegisterUnlessAborted ==
  ~platform.usePortResourceAPIs
  => IF op = "reconfigure" /\ LastCallFailed
          /\ calls[Len(calls)].op = "setLanesControl"
          /\ Len(LaneWrites(calls)) = 2
       THEN /\ hwLanes = 4
            /\ laneMode_ = before.laneMode
            /\ laneMode_ \in {SINGLE, DUAL}
       ELSE laneMode_ = hwLanes

\* a legacy transition completed and the register holds the new lane mode
C23_Witness ==
  /\ ~platform.usePortResourceAPIs
  /\ op = "reconfigure"
  /\ result = "ok"
  /\ laneMode_ # before.laneMode
  /\ before.laneMode = before.hwLanes
  /\ laneMode_ = hwLanes

\* C24: when reconfigureIfNeeded(s0, s1) returns successfully the recorded
\* lane mode is the desired lane mode computed from s1, and a call
\* reconfigureIfNeeded(s1, s1) that follows it immediately issues no hardware
\* call and no notification and leaves the group as it is.
C24_SettledAfterSuccess ==
  [][/\ (op' = "reconfigure" /\ result' = "ok")
          => laneMode_' = DesiredOf(platform, before'.allPorts, newState').mode
     /\ (/\ op = "reconfigure" /\ result = "ok"
         /\ op' = "reconfigure" /\ oldState' = newState /\ newState' = newState)
          => /\ calls' = << >>
             /\ notified' = << >>
             /\ laneMode_' = laneMode_
             /\ allPorts_' = allPorts_
             /\ portTable' = portTable
             /\ hwLanes' = hwLanes]_vars

\* a call with oldState == newState made after a flex transition had
\* succeeded returned without touching anything
C24_Witness ==
  /\ op = "reconfigure"
  /\ oldState = newState
  /\ result = "ok"
  /\ calls = << >>
  /\ notified = << >>
  /\ before.gen > 0
  /\ GroupUntouched

\* C25: the identifier of the controlling port is the same before and after
\* every reconfiguration; after a flex transition that completed the
\* controlling port is the member with that identifier; a flex transition
\* whose new port list lacks the identifier fails at the lookup that follows
\* the registry update, before the member list is replaced.
C25_ControllingPortKept ==
  op = "reconfigure"
  => /\ controllingPort_.id = before.controllingPort.id
     /\ (FlexCompleted /\ LaneModeChanging)
          => \E k \in 1..Len(allPorts_) : allPorts_[k] = controllingPort_
     /\ (/\ platform.usePortResourceAPIs
         /\ LaneModeChanging
         /\ before.controllingPort.id \notin Range(Ids(NewPortsGot.ports)))
          => /\ result # "ok"
             /\ allPorts_ = before.allPorts
             /\ controllingPort_ = before.controllingPort
             /\ laneMode_ = before.laneMode
             /\ Programmed => result = "BcmPortNotFound"
     /\ result = "BcmPortNotFound"
          => /\ Programmed
             /\ before.controllingPort.id \notin Range(Ids(NewPortsGot.ports))

\* the new port list (2, 3, 4) lacks the controlling port 1: the builder
\* programmed the change and the lookup of port 1 failed
C25_Witness ==
  /\ op = "reconfigure"
  /\ result = "BcmPortNotFound"
  /\ Programmed
  /\ DOMAIN portTable = {2, 3, 4}
  /\ controllingPort_ = before.controllingPort

====
